---------------------------- MODULE Spec2Model ----------------------------
(***************************************************************************)
(* Real-time presence and messaging subsystem of the Vephla productivity   *)
(* suite: the socket.io authentication middleware (config/socket.js) and   *)
(* the connection handler, presence registry and notification dispatcher   *)
(* (services/socketService.js).                                            *)
(*                                                                         *)
(* One action per callback the event loop runs.  Each callback runs to     *)
(* completion (single-threaded event loop), so each is one atomic step.    *)
(***************************************************************************)
EXTENDS Integers, Sequences, FiniteSets, TLC

VARIABLES
    status,       \* each socket id: "new", "open", "closed" or "rejected"
    sockUser,     \* socket.user.id of each socket
    connErr,      \* the error a rejected socket's client was sent
    activeUsers,  \* the presence registry: userId -> set of socket ids
    rooms,        \* the adapter's rooms: room name -> set of socket ids
    statusCount,  \* user_status broadcasts so far, per user and status, and the last one
    lastOp,       \* the handler that ran last
    out,          \* what the last handler emitted, and to whom
    alive,        \* the server process is running
    hist,         \* the receive_message packets each client has been handed
    io            \* config/socket.js `io`: TRUE once initSocket has created the server

vars == <<status, sockUser, connErr, activeUsers, rooms, statusCount, lastOp, out,
          alive, hist, io>>

---------------------------------------------------------------------------
(* Bounds *)

\* Number of connection attempts (socket ids) the model hands out.
MaxConns == 2

\* Number of send_message events whose deliveries the clients' inboxes keep.
MaxSends == 2

Conns == 1 .. MaxConns

---------------------------------------------------------------------------
(* Values *)

Users == {"u1", "u2"}

\* decoded.id of a verified token whose payload has no id field.
Undefined == "undefined"

Ids == Users \cup {Undefined}

\* socket.user was never assigned.
NoUser == "none"

NoToken == "absent"

\* Credentials a client can present.  generateAccessToken signs {id, role}
\* with JWT_SECRET: tok_u1 and tok_u2 are such tokens; tok_bad fails
\* verification (malformed, expired or signed with another key).
IssuedTokens == {"tok_u1", "tok_u2", "tok_bad"}

\* tok_noid is signed with JWT_SECRET too, but its payload carries no id.
Tokens == IssuedTokens \cup {"tok_noid"}

\* The authorization header, as the words between single spaces.
Headers == {<<>>, <<"Bearer">>, <<"Bearer", "tok_u1">>, <<"Bearer", "tok_bad">>}

\* socket.handshake: the auth field's token (absent, empty or one of T) and
\* the authorization header.
HandshakesOf(T) == [auth : T \cup {NoToken, ""}, header : Headers]

IssuedHandshakes == HandshakesOf(IssuedTokens)

Handshakes == HandshakesOf(Tokens)

ErrTokenRequired == "Authentication error: Token required"

ErrInvalidToken == "Authentication error: Invalid token"

NoErr == "none"

\* Room names.  A room is named by a string; the model keeps the three shapes
\* of string apart by a tag: the private room `user:${userId}`, the room every
\* socket joins under its own id, and any other client-chosen name.
PrivRoom(u) == <<"user", u>>

SidRoom(c) == <<"sid", c>>

ChatRooms == {<<"chat", "team-x">>}

RoomNames == ChatRooms \cup {PrivRoom(u) : u \in Ids} \cup {SidRoom(c) : c \in Conns}

\* Room names clients put in their events: a chat room, the string that is
\* u1's private room, and the string that is the first socket's id.
ClientRooms == ChatRooms \cup {PrivRoom("u1"), SidRoom(1)}

Messages == {"hi"}

\* senderId and senderName are the client's to choose.
SenderIds == {"u1"}

SenderNames == {"Bob"}

TypingUsers == {"Bob"}

Notifications == {"TEST_NOTIF"}

\* The user id a client names in an 'identify' event.
IdentifyIds == {"u1"}

\* An event emitted with no argument: the handler's data is undefined.
NoData == [undefined |-> TRUE]

\* new Date(): the payload carries a timestamp; its value is not modelled.
Timestamp == "now"

Open == {c \in Conns : status[c] = "open"}

---------------------------------------------------------------------------
(* jwt.verify and the io.use middleware *)

\* jwt.verify(token, JWT_SECRET): the decoded payload, or a throw.
JwtVerify(token) ==
    CASE token = "tok_u1"   -> [ok |-> TRUE, id |-> "u1"]
      [] token = "tok_u2"   -> [ok |-> TRUE, id |-> "u2"]
      [] token = "tok_noid" -> [ok |-> TRUE, id |-> Undefined]
      [] OTHER              -> [ok |-> FALSE, id |-> Undefined]

\* !token
Falsy(t) == t = NoToken \/ t = ""

\* socket.handshake.headers.authorization?.split(' ')[1]
HeaderToken(h) == IF Len(h) >= 2 THEN h[2] ELSE NoToken

\* The header tried first, the auth field only when the header has no token.
ExtractTokenHeaderFirst(hs) ==
    IF Falsy(HeaderToken(hs.header)) THEN hs.auth ELSE HeaderToken(hs.header)

\* socket.handshake.auth.token || headers.authorization?.split(' ')[1]
ExtractToken(hs) == IF Falsy(hs.auth) THEN HeaderToken(hs.header) ELSE hs.auth

\* AuthMiddleware without the `if (!token)` return: a missing token reaches
\* jwt.verify, which throws.
AuthMiddlewareNoTokenCheck(hs) ==
    LET decoded == JwtVerify(ExtractToken(hs)) IN
    IF decoded.ok
    THEN [admit |-> TRUE, user |-> decoded.id, err |-> NoErr]
    ELSE [admit |-> FALSE, user |-> NoUser, err |-> ErrInvalidToken]

\* AuthMiddleware whose catch block reports the missing-token error.
AuthMiddlewareSameError(hs) ==
    LET token == ExtractToken(hs) IN
    IF Falsy(token) \/ ~JwtVerify(token).ok
    THEN [admit |-> FALSE, user |-> NoUser, err |-> ErrTokenRequired]
    ELSE [admit |-> TRUE, user |-> JwtVerify(token).id, err |-> NoErr]

\* The middleware's outcome: next() with socket.user set, or next(err).
AuthMiddleware(hs) ==
    LET token == ExtractToken(hs) IN
    IF Falsy(token)
    THEN [admit |-> FALSE, user |-> NoUser, err |-> ErrTokenRequired]
    ELSE LET decoded == JwtVerify(token) IN
         IF decoded.ok
         THEN [admit |-> TRUE, user |-> decoded.id, err |-> NoErr]
         ELSE [admit |-> FALSE, user |-> NoUser, err |-> ErrInvalidToken]

---------------------------------------------------------------------------
(* The adapter: who receives a broadcast *)

\* The sockets excluded by a broadcast's except rooms.
ExceptSids(rs, except) == UNION {rs[r] : r \in except}

\* adapter.apply: the sockets a broadcast reaches (each once).  No target
\* room means every connected socket.
Apply(rs, connected, targets, except) ==
    IF targets # {}
    THEN (UNION {rs[r] : r \in targets}) \ ExceptSids(rs, except)
    ELSE connected \ ExceptSids(rs, except)

\* Packets each connection is handed by one emit.
Packets(S) == [c \in Conns |-> IF c \in S THEN 1 ELSE 0]

Emission(ev, payload, from, S) ==
    [ev |-> ev, payload |-> payload, from |-> from, to |-> Packets(S)]

\* A join that first leaves every other room.
JoinExclusive(rs, c, r) ==
    [x \in RoomNames |-> IF x = r THEN rs[x] \cup {c} ELSE rs[x] \ {c}]

\* socket.join(room) / socket.leave(room)
Join(rs, c, r) == [rs EXCEPT ![r] = @ \cup {c}]

Leave(rs, c, r) == [rs EXCEPT ![r] = @ \ {c}]

LeaveAll(rs, c) == [r \in RoomNames |-> rs[r] \ {c}]

---------------------------------------------------------------------------
(* The presence registry (a Map from user id to a Set of socket ids) *)

MapHas(m, k) == k \in DOMAIN m

MapSet(m, k, v) == [x \in DOMAIN m \cup {k} |-> IF x = k THEN v ELSE m[x]]

\* activeUsers.clear() in place of activeUsers.delete(userId).
MapDeleteAll(m, k) == [x \in {} |-> {}]

MapDelete(m, k) == [x \in DOMAIN m \ {k} |-> m[x]]

\* RegisterConnection that always starts a new Set for the user.
RegisterConnectionOverwrite(m, u, c) == MapSet(m, u, {c})

\* RegisterConnection that adds the socket id to every user's Set.
RegisterConnectionEverywhere(m, u, c) ==
    [x \in DOMAIN m \cup {u} |-> (IF x \in DOMAIN m THEN m[x] ELSE {}) \cup {c}]

\* handleSocketConnection without the registration.
RegisterConnectionSkipped(m, u, c) == m

\* if (!activeUsers.has(userId)) activeUsers.set(userId, new Set());
\* activeUsers.get(userId).add(socket.id);
RegisterConnection(m, u, c) ==
    LET m1 == IF MapHas(m, u) THEN m ELSE MapSet(m, u, {}) IN
    MapSet(m1, u, m1[u] \cup {c})

---------------------------------------------------------------------------
Init ==
    /\ status = [c \in Conns |-> "new"]
    /\ sockUser = [c \in Conns |-> NoUser]
    /\ connErr = [c \in Conns |-> NoErr]
    /\ activeUsers = <<>>
    /\ rooms = [r \in RoomNames |-> {}]
    /\ statusCount = [u \in Ids |-> [online |-> 0, offline |-> 0, last |-> "none"]]
    /\ lastOp = "init"
    /\ out = <<>>
    /\ alive = TRUE
    /\ hist = [on |-> FALSE, sent |-> 0, inbox |-> [c \in Conns |-> <<>>]]
    /\ io = TRUE

\* Socket ids are assigned by the server and never reused.
FreshId == CHOOSE c \in Conns : status[c] = "new" /\ \A d \in Conns : d < c => status[d] # "new"

\* socket.broadcast.emit in place of io.emit.
OnlineBroadcastToOthers(c, rs, connected) == Apply(rs, connected, {}, {SidRoom(c)})

\* io.emit('user_status', ...): every connected socket, the new one included.
OnlineBroadcastTo(c, rs, connected) == Apply(rs, connected, {}, {})

\* handleSocketConnection(socket, io), up to the registration of the handlers.
HandleSocketConnection(c, userId) ==
    LET rs1 == Join(rooms, c, SidRoom(c))
        rs2 == Join(rs1, c, PrivRoom(userId))
        connected == Open \cup {c}
    IN
    /\ status' = [status EXCEPT ![c] = "open"]
    /\ sockUser' = [sockUser EXCEPT ![c] = userId]
    /\ activeUsers' = RegisterConnection(activeUsers, userId, c)
    /\ rooms' = rs2
    /\ statusCount' = [statusCount EXCEPT ![userId].online = @ + 1,
                                          ![userId].last = "online"]
    /\ out' = <<Emission("user_status", [userId |-> userId, status |-> "online"], c,
                         OnlineBroadcastTo(c, rs2, connected))>>
    /\ UNCHANGED <<connErr, alive, hist, io>>

\* A connection attempt: the io.use middleware, then the connection listener
\* for the sockets it lets through.
Connection(hs) ==
    /\ lastOp' = "connection"
    /\ io
    /\ \E c \in Conns : status[c] = "new"
    /\ LET c == FreshId
           r == AuthMiddleware(hs)
       IN
       /\ IF r.admit
          THEN HandleSocketConnection(c, r.user)
          ELSE /\ status' = [status EXCEPT ![c] = "rejected"]
               /\ connErr' = [connErr EXCEPT ![c] = r.err]
               /\ out' = <<>>
               /\ UNCHANGED <<sockUser, activeUsers, rooms, statusCount, alive, hist, io>>

\* socket.on('join_room')
JoinRoom(c, room) ==
    /\ lastOp' = "join_room"
    /\ status[c] = "open"
    /\ rooms' = Join(rooms, c, room)
    /\ out' = <<>>
    /\ UNCHANGED <<status, sockUser, connErr, activeUsers, statusCount, alive, hist, io>>

\* socket.on('leave_room')
LeaveRoom(c, room) ==
    /\ lastOp' = "leave_room"
    /\ status[c] = "open"
    /\ rooms' = Leave(rooms, c, room)
    /\ out' = <<>>
    /\ UNCHANGED <<status, sockUser, connErr, activeUsers, statusCount, alive, hist, io>>

\* io.emit in place of io.to(room).emit.
SendMessageToEveryone(c, room) == Apply(rooms, Open, {}, {})

\* socket.to(room) in place of io.to(room).
SendMessageToOthers(c, room) == Apply(rooms, Open, {room}, {SidRoom(c)})

\* io.to(room).to(socket.id): the room's members and always the sender.
SendMessageToRoomAndSender(c, room) == Apply(rooms, Open, {room, SidRoom(c)}, {})

\* io.to(room): the room's members, the sending socket c not excepted.
SendMessageTo(c, room) == Apply(rooms, Open, {room}, {})

\* const { room, ... } = data succeeds unless data is undefined or null.
Destructurable(data) == data # NoData

\* A handler threw and nothing catches it: socket.io runs listeners without a
\* try/catch and the server installs no 'uncaughtException' handler, so the
\* process exits; every connection drops and the in-memory state is gone.
UncaughtException ==
    /\ alive' = FALSE
    /\ status' = [c \in Conns |-> IF status[c] = "open" THEN "closed" ELSE status[c]]
    /\ activeUsers' = <<>>
    /\ rooms' = [r \in RoomNames |-> {}]
    /\ out' = <<>>
    /\ UNCHANGED <<sockUser, connErr, statusCount, hist, io>>

\* A client that puts each packet at the front of its list.
DeliverFront(h, room, S) ==
    IF h.on /\ h.sent < MaxSends
    THEN [on |-> TRUE, sent |-> h.sent + 1,
          inbox |-> [c \in Conns |->
                        IF c \in S
                        THEN <<[room |-> room, n |-> h.sent + 1]>> \o h.inbox[c]
                        ELSE h.inbox[c]]]
    ELSE h

\* The emit writes one packet to each recipient's transport, which keeps the
\* order of writes; n is the position of the send_message in the order the
\* server processed them.
Deliver(h, room, S) ==
    IF h.on /\ h.sent < MaxSends
    THEN [on |-> TRUE, sent |-> h.sent + 1,
          inbox |-> [c \in Conns |->
                        IF c \in S
                        THEN Append(h.inbox[c], [room |-> room, n |-> h.sent + 1])
                        ELSE h.inbox[c]]]
    ELSE h

\* A payload whose senderId is the socket's authenticated user.
ReceiveMessagePayloadFromSocket(c, data) ==
    [room |-> data.room, message |-> data.message,
     senderId |-> sockUser[c], senderName |-> data.senderName,
     timestamp |-> Timestamp]

\* The receive_message payload: the event's fields and new Date().
ReceiveMessagePayload(c, data) ==
    [room |-> data.room, message |-> data.message,
     senderId |-> data.senderId, senderName |-> data.senderName,
     timestamp |-> Timestamp]

\* socket.on('send_message')
SendMessage(c, data) ==
    /\ lastOp' = "send_message"
    /\ status[c] = "open"
    /\ IF Destructurable(data)
       THEN /\ out' = <<Emission("receive_message", ReceiveMessagePayload(c, data),
                                 c, SendMessageTo(c, data.room))>>
            /\ hist' = Deliver(hist, data.room, SendMessageTo(c, data.room))
            /\ UNCHANGED <<status, sockUser, connErr, activeUsers, rooms, statusCount, alive, io>>
       ELSE UncaughtException

\* socket.to(room): the room, except the room named by the socket's own id.
SocketTo(c, room) == Apply(rooms, Open, {room}, {SidRoom(c)})

\* socket.on('typing')
Typing(c, data) ==
    /\ lastOp' = "typing"
    /\ status[c] = "open"
    /\ IF Destructurable(data)
       THEN /\ out' = <<Emission("user_typing", [room |-> data.room, user |-> data.user],
                                 c, SocketTo(c, data.room))>>
            /\ UNCHANGED <<status, sockUser, connErr, activeUsers, rooms, statusCount,
                           alive, hist, io>>
       ELSE UncaughtException

\* socket.on('stop_typing')
StopTyping(c, data) ==
    /\ lastOp' = "stop_typing"
    /\ status[c] = "open"
    /\ IF Destructurable(data)
       THEN /\ out' = <<Emission("user_stop_typing", [room |-> data.room, user |-> data.user],
                                 c, SocketTo(c, data.room))>>
            /\ UNCHANGED <<status, sockUser, connErr, activeUsers, rooms, statusCount,
                           alive, hist, io>>
       ELSE UncaughtException

\* An 'identify' event: handleSocketConnection registers no listener for it,
\* so the event is dropped.
Identify(c, userId) ==
    /\ lastOp' = "identify"
    /\ status[c] = "open"
    /\ out' = <<>>
    /\ UNCHANGED <<status, sockUser, connErr, activeUsers, rooms, statusCount, alive, hist, io>>

\* The disconnect handler without the size check.
LastSocketGoneAlways(sockets) == TRUE

\* sockets.size === 0
LastSocketGone(sockets) == sockets = {}

\* A scan that finds the socket id in no entry.
ScanHitsNone(c) == {}

\* A scan that stops at an entry whether or not it holds the socket id.
ScanHitsAny(c) == DOMAIN activeUsers

\* The registry entries the disconnect handler's scan stops at.
ScanHits(c) == {u \in DOMAIN activeUsers : c \in activeUsers[u]}

\* socket.on('disconnect').  By the time the handler runs the socket has left
\* every room and is no longer connected.
Disconnect(c) ==
    /\ lastOp' = "disconnect"
    /\ status[c] = "open"
    /\ status' = [status EXCEPT ![c] = "closed"]
    /\ rooms' = LeaveAll(rooms, c)
    /\ IF ScanHits(c) = {}
       THEN /\ out' = <<>>
            /\ UNCHANGED <<activeUsers, statusCount>>
       ELSE \E userId \in ScanHits(c) :
            LET sockets == activeUsers[userId] \ {c} IN
            IF LastSocketGone(sockets)
            THEN /\ activeUsers' = MapDelete(activeUsers, userId)
                 /\ statusCount' = [statusCount EXCEPT ![userId].offline = @ + 1,
                                                       ![userId].last = "offline"]
                 /\ out' = <<Emission("user_status", [userId |-> userId, status |-> "offline"],
                                      c, Apply(rooms', Open \ {c}, {}, {}))>>
            ELSE /\ activeUsers' = MapSet(activeUsers, userId, sockets)
                 /\ out' = <<>>
                 /\ UNCHANGED statusCount
    /\ UNCHANGED <<sockUser, connErr, alive, hist, io>>

\* io.to(`user:${userId}`).emit('notification', notification)
NotifyUserTo(userId) == Apply(rooms, Open, {PrivRoom(userId)}, {})

\* notifyUser(io, userId, notification)
NotifyUser(userId, notification) ==
    /\ lastOp' = "notifyUser"
    /\ out' = IF io
              THEN <<Emission("notification", [type |-> notification, user |-> userId],
                              0, NotifyUserTo(userId))>>
              ELSE <<>>
    /\ UNCHANGED <<status, sockUser, connErr, activeUsers, rooms, statusCount, alive, hist, io>>

\* io.emit('notification', notification) in place of io.to(roomId).emit.
NotifyRoomToEveryone(roomId) == Apply(rooms, Open, {}, {})

\* io.to(roomId)
NotifyRoomTo(roomId) == Apply(rooms, Open, {roomId}, {})

\* notifyRoom(io, roomId, notification)
NotifyRoom(roomId, notification) ==
    /\ lastOp' = "notifyRoom"
    /\ out' = IF io
              THEN <<Emission("notification", [type |-> notification, room |-> roomId],
                              0, NotifyRoomTo(roomId))>>
              ELSE <<>>
    /\ UNCHANGED <<status, sockUser, connErr, activeUsers, rooms, statusCount, alive, hist, io>>

\* res.status(code).json(...): the response of a REST call, kept with the
\* call's emissions; it is handed to no socket.
Response(code) == Emission("http_response", [status |-> code], 0, {})

\* req.body of POST /api/chat/message: room and message, either of which may
\* be absent or empty.
NoRoom == <<>>

ApiBodies == [room : ClientRooms \cup {NoRoom}, message : Messages \cup {""}]

\* req.user as the protect middleware sets it; name is username || email.
ReqUsers == {[id |-> "u1", name |-> "Bob"], [id |-> "u2", name |-> "Ann"]}

\* sendMessageAPI without the `!room || !message` check.
ApiBodyInvalidNever(body) == FALSE

\* !room || !message
ApiBodyInvalid(body) == body.room = NoRoom \/ Falsy(body.message)

\* io.to(room) of sendMessageAPI
SendMessageAPITo(room) == Apply(rooms, Open, {room}, {})

\* sendMessageAPI(req, res): 400 for a missing field; getIO() throws when io
\* is unset and the catch answers 500; otherwise one emit and 200.
SendMessageAPI(user, body) ==
    /\ lastOp' = "sendMessageAPI"
    /\ out' = IF ApiBodyInvalid(body) THEN <<Response(400)>>
              ELSE IF ~io THEN <<Response(500)>>
              ELSE <<Emission("receive_message",
                              [room |-> body.room, message |-> body.message,
                               senderId |-> user.id, senderName |-> user.name,
                               timestamp |-> Timestamp],
                              0, SendMessageAPITo(body.room)),
                     Response(200)>>
    /\ UNCHANGED <<status, sockUser, connErr, activeUsers, rooms, statusCount, alive, hist, io>>

MessageData == [room : ClientRooms, message : Messages, senderId : SenderIds, senderName : SenderNames]

TypingData == [room : ClientRooms, user : TypingUsers]

\* The event loop of the running process: any handler may run next.  HS is
\* the set of handshakes clients present, MD and TD the payloads they send.
NextOf(HS, MD, TD) ==
    /\ alive
    /\ \/ \E hs \in HS : Connection(hs)
       \/ \E c \in Conns : Disconnect(c)
       \/ \E c \in Conns, r \in ClientRooms : JoinRoom(c, r)
       \/ \E c \in Conns, r \in ClientRooms : LeaveRoom(c, r)
       \/ \E c \in Conns, d \in MD : SendMessage(c, d)
       \/ \E c \in Conns, d \in TD : Typing(c, d)
       \/ \E c \in Conns, d \in TD : StopTyping(c, d)
       \/ \E c \in Conns, u \in IdentifyIds : Identify(c, u)
       \/ \E u \in Users, n \in Notifications : NotifyUser(u, n)

\* Clients present the credentials this server issues, or none, or bad ones,
\* and send the payloads the web client sends.
Next == NextOf(IssuedHandshakes, MessageData, TypingData)

Spec == Init /\ [][Next]_vars

\* Clients may also present any other token signed with JWT_SECRET.
NextAnyToken == NextOf(Handshakes, MessageData, TypingData)

SpecAnyToken == Init /\ [][NextAnyToken]_vars

\* Clients may also emit an event with no payload.
NextAnyPayload ==
    NextOf(IssuedHandshakes, MessageData \cup {NoData}, TypingData \cup {NoData})

SpecAnyPayload == Init /\ [][NextAnyPayload]_vars

\* Membership traffic only: connections come and go and join and leave
\* rooms.  The other handlers change neither the rooms, nor the registry, nor
\* any socket's status.
RoomsHandshakes == {hs \in IssuedHandshakes : hs.header = <<>>}

NextRooms ==
    /\ alive
    /\ \/ \E hs \in RoomsHandshakes : Connection(hs)
       \/ \E c \in Conns : Disconnect(c)
       \/ \E c \in Conns, r \in ClientRooms : JoinRoom(c, r)
       \/ \E c \in Conns, r \in ClientRooms : LeaveRoom(c, r)

SpecRooms == Init /\ [][NextRooms]_vars

\* The server's own emitters next to the chat traffic: notifyUser, notifyRoom
\* and the REST endpoint, with the socket server initialised or not (server.js
\* exists with and without the initSocket call).  Clients connect with valid
\* tokens and join and leave the chat room; events and notifications target
\* any room name.
InitServer ==
    /\ status = [c \in Conns |-> "new"]
    /\ sockUser = [c \in Conns |-> NoUser]
    /\ connErr = [c \in Conns |-> NoErr]
    /\ activeUsers = <<>>
    /\ rooms = [r \in RoomNames |-> {}]
    /\ statusCount = [u \in Ids |-> [online |-> 0, offline |-> 0, last |-> "none"]]
    /\ lastOp = "init"
    /\ out = <<>>
    /\ alive = TRUE
    /\ hist = [on |-> FALSE, sent |-> 0, inbox |-> [c \in Conns |-> <<>>]]
    /\ io \in BOOLEAN

ServerHandshakes == {hs \in IssuedHandshakes : hs.header = <<>> /\ JwtVerify(hs.auth).ok}

NextServerOf(MD, TD) ==
    /\ alive
    /\ \/ \E hs \in ServerHandshakes : Connection(hs)
       \/ \E c \in Conns : Disconnect(c)
       \/ \E c \in Conns, r \in ChatRooms : JoinRoom(c, r)
       \/ \E c \in Conns, r \in ChatRooms : LeaveRoom(c, r)
       \/ \E c \in Conns, d \in MD : SendMessage(c, d)
       \/ \E c \in Conns, d \in TD : Typing(c, d)
       \/ \E c \in Conns, d \in TD : StopTyping(c, d)
       \/ \E u \in Users, n \in Notifications : NotifyUser(u, n)
       \/ \E r \in ClientRooms, n \in Notifications : NotifyRoom(r, n)
       \/ \E u \in ReqUsers, b \in ApiBodies : SendMessageAPI(u, b)

NextServer == NextServerOf(MessageData, TypingData)

SpecServer == InitServer /\ [][NextServer]_vars

\* The same, with clients that may also emit an event with no payload.
NextServerAnyPayload == NextServerOf(MessageData \cup {NoData}, TypingData \cup {NoData})

SpecServerAnyPayload == InitServer /\ [][NextServerAnyPayload]_vars

\* Connection attempts with any handshake; the admitted connections join a
\* chat room and disconnect.
NextAuth ==
    /\ alive
    /\ \/ \E hs \in Handshakes : Connection(hs)
       \/ \E c \in Conns, r \in ChatRooms : JoinRoom(c, r)
       \/ \E c \in Conns : Disconnect(c)

SpecAuth == Init /\ [][NextAuth]_vars

\* The chat traffic of one room, with the clients' inboxes kept: valid
\* connections, joins, leaves, sends and disconnects.
InitOrder ==
    /\ status = [c \in Conns |-> "new"]
    /\ sockUser = [c \in Conns |-> NoUser]
    /\ connErr = [c \in Conns |-> NoErr]
    /\ activeUsers = <<>>
    /\ rooms = [r \in RoomNames |-> {}]
    /\ statusCount = [u \in Ids |-> [online |-> 0, offline |-> 0, last |-> "none"]]
    /\ lastOp = "init"
    /\ out = <<>>
    /\ alive = TRUE
    /\ hist = [on |-> TRUE, sent |-> 0, inbox |-> [c \in Conns |-> <<>>]]
    /\ io = TRUE

\* The connections are one user's: whose they are plays no part in the
\* send_message fan-out.
OrderHandshakes == {hs \in IssuedHandshakes : hs.header = <<>> /\ hs.auth = "tok_u1"}

OrderData == {d \in MessageData : d.room \in ChatRooms}

NextOrder ==
    /\ alive
    /\ \/ \E hs \in OrderHandshakes : Connection(hs)
       \/ \E c \in Conns : Disconnect(c)
       \/ \E c \in Conns, r \in ChatRooms : JoinRoom(c, r)
       \/ \E c \in Conns, r \in ChatRooms : LeaveRoom(c, r)
       \/ \E c \in Conns, d \in OrderData : SendMessage(c, d)

SpecOrder == InitOrder /\ [][NextOrder]_vars

---------------------------------------------------------------------------
(* Properties *)

OpenAs(u) == {c \in Conns : status[c] = "open" /\ sockUser[c] = u}

\* The user_status emissions of the last step.
StatusEmitted(u, st) ==
    \E i \in DOMAIN out :
        /\ out[i].ev = "user_status"
        /\ out[i].payload = [userId |-> u, status |-> st]

AnyStatusEmitted == \E i \in DOMAIN out : out[i].ev = "user_status"

\* A rejected socket is in no registry set and in no room, and has no user.
RejectedIsOutside ==
    \A c \in Conns :
        status[c] = "rejected" =>
            /\ sockUser[c] = NoUser
            /\ \A u \in DOMAIN activeUsers : c \notin activeUsers[u]
            /\ \A r \in RoomNames : c \notin rooms[r]

\* A rejected attempt is final: nothing the subsystem does admits it later.
RejectedStays ==
    \A c \in Conns :
        status[c] = "rejected" => status'[c] = "rejected" /\ connErr'[c] = connErr[c]

\* The step rejects the fresh socket with error e and changes nothing else.
RejectsWith(e) ==
    /\ \E c \in Conns : status[c] = "new" /\ status' = [status EXCEPT ![c] = "rejected"]
                        /\ connErr' = [connErr EXCEPT ![c] = e]
    /\ out' = <<>>
    /\ UNCHANGED <<sockUser, activeUsers, rooms, statusCount>>

\* C1: a user id is a key of activeUsers iff some connection authenticated as
\* that user is open, and the set stored for it is exactly the set of that
\* user's open connection ids (hence never empty).
C1_RegistryIsOpenConnections ==
    /\ DOMAIN activeUsers \subseteq Ids
    /\ \A u \in Ids :
        /\ (u \in DOMAIN activeUsers) <=> (OpenAs(u) # {})
        /\ u \in DOMAIN activeUsers => activeUsers[u] = OpenAs(u)

\* C1 witness: after a connect of two connections of one user and the
\* disconnect of one of them, the user's entry holds the other.
C1_Witness ==
    \E c, d \in Conns :
        /\ status[c] = "closed" /\ status[d] = "open"
        /\ sockUser[c] = sockUser[d]
        /\ activeUsers[sockUser[d]] = {d}

\* C2 (as claimed): user_status broadcasts for a user mark only the first
\* connection appearing and the last disappearing, so a user never has two
\* more 'online' broadcasts than 'offline' ones: c1 and c2 opened for U give
\* one 'online', not two.
C2_OneOnlinePerPresence ==
    \A u \in Ids : statusCount[u].online <= statusCount[u].offline + 1

\* C3: a disconnect of a connection of U broadcasts 'offline' for U iff no
\* other connection of U is open; then U's entry is gone.  Otherwise nothing
\* is broadcast and U keeps its entry.
C3_OfflineIffLastConnection ==
    [][\A c \in Conns :
        (status[c] = "open" /\ status'[c] = "closed") =>
            LET U == sockUser[c]
                last == OpenAs(U) \ {c} = {}
            IN
            /\ StatusEmitted(U, "offline")' <=> last
            /\ last => U \notin DOMAIN activeUsers'
            /\ ~last => ~AnyStatusEmitted' /\ U \in DOMAIN activeUsers'
                        /\ activeUsers'[U] = OpenAs(U) \ {c}]_vars

\* C3 witness: the last connection of a user has just disconnected while
\* another user is still connected, and 'offline' went out.
C3_Witness ==
    \E c, d \in Conns :
        /\ status[c] = "closed" /\ status[d] = "open"
        /\ StatusEmitted(sockUser[c], "offline")
        /\ out[1].from = c
        /\ out[1].to[d] = 1

\* Handshakes with no token in the auth field and no second header word.
MissingTokenHandshakes == {hs \in Handshakes : Falsy(hs.auth) /\ Len(hs.header) < 2}

\* Handshakes whose token is present and fails verification.
InvalidTokenHandshakes ==
    {hs \in Handshakes : ~Falsy(ExtractToken(hs)) /\ ~JwtVerify(ExtractToken(hs)).ok}

C5_InvalidTokenRejected ==
    [][/\ lastOp' = "connection" =>
            \A hs \in InvalidTokenHandshakes :
                Connection(hs) =>
                    RejectsWith(ErrInvalidToken) /\ ErrInvalidToken # ErrTokenRequired
       /\ RejectedStays]_vars

\* C5 witness: an attempt was rejected for its invalid token while another
\* connection is registered.
C5_Witness ==
    \E c, d \in Conns :
        /\ status[c] = "rejected" /\ connErr[c] = ErrInvalidToken
        /\ status[d] = "open"

\* C6 (as claimed): every admitted connection carries a non-empty user id,
\* whatever token the verifier accepted.
C6_AdmittedHasIdentity ==
    \A c \in Conns : status[c] = "open" => sockUser[c] \in Users

\* C7: a send_message to room R hands exactly one receive_message, with the
\* same room and message and a timestamp, to each member of R at that moment
\* and none to any other connection.
C7_FanOutToMembersOnly ==
    [][lastOp' = "send_message" =>
       \A c \in Conns, d \in MessageData :
        SendMessage(c, d) =>
            /\ Len(out') = 1
            /\ out'[1].ev = "receive_message"
            /\ out'[1].payload.room = d.room
            /\ out'[1].payload.message = d.message
            /\ "timestamp" \in DOMAIN out'[1].payload
            /\ \A x \in Conns :
                out'[1].to[x] = IF x \in rooms[d.room] THEN 1 ELSE 0]_vars

\* C7 witness: a message was delivered to a member that did not send it and
\* not delivered to an open connection outside the room.
C7_Witness ==
    /\ Len(out) = 1
    /\ out[1].ev = "receive_message"
    /\ \E x, y \in Open :
        /\ x # out[1].from /\ out[1].to[x] = 1
        /\ y \notin rooms[out[1].payload.room] /\ out[1].to[y] = 0

\* C8: a sender that is a member of the target room receives its own
\* message, with the message and senderName it sent and a timestamp.
C8_SenderEcho ==
    [][lastOp' = "send_message" =>
       \A c \in Conns, d \in MessageData :
        (SendMessage(c, d) /\ c \in rooms[d.room]) =>
            /\ out'[1].to[c] = 1
            /\ out'[1].payload.message = d.message
            /\ out'[1].payload.senderName = d.senderName
            /\ out'[1].payload.timestamp = Timestamp]_vars

\* C8 witness: a connection that joined the chat room sent to it and got its
\* message back.
C8_Witness ==
    /\ Len(out) = 1
    /\ out[1].ev = "receive_message"
    /\ out[1].payload.room \in ChatRooms
    /\ out[1].from \in rooms[out[1].payload.room]
    /\ out[1].to[out[1].from] = 1

\* C9 (as claimed): the connection that emits typing or stop_typing never
\* receives the resulting user_typing / user_stop_typing.
C9_TypingNeverEchoed ==
    [][\A c \in Conns, d \in TypingData :
        (Typing(c, d) \/ StopTyping(c, d)) => out'[1].to[c] = 0]_vars

\* C10 (as claimed): notifyUser(U, N) delivers N to every open connection
\* authenticated as U and to no connection authenticated as another user.
C10_NotifyReachesExactlyUser ==
    [][\A u \in Users, n \in Notifications :
        NotifyUser(u, n) =>
            \A c \in Conns : out'[1].to[c] = IF c \in OpenAs(u) THEN 1 ELSE 0]_vars

PrivRooms == {PrivRoom(u) : u \in Ids}

\* C11 (as claimed): an open connection is always a member of the private
\* room of its own user id, whatever events clients have sent.
C11_AlwaysInOwnPrivateRoom ==
    \A c \in Conns : status[c] = "open" => c \in rooms[PrivRoom(sockUser[c])]

\* C12 (as claimed): no receive_message, user_typing or user_stop_typing is
\* delivered to any connection through a private room, whatever room name
\* the client's event carried.
C12_PrivateRoomOnlyNotifies ==
    \A i \in DOMAIN out :
        (/\ out[i].ev \in {"receive_message", "user_typing", "user_stop_typing"}
         /\ out[i].payload.room \in PrivRooms)
            => \A c \in Conns : out[i].to[c] = 0

\* C13 (as claimed): notifyUser(U, N) while U has no open connection delivers
\* to nobody and leaves the registry and the rooms as they were.
C13_NotifyAbsentUserIsNoOp ==
    [][lastOp' = "notifyUser" =>
       \A u \in Users, n \in Notifications :
        (NotifyUser(u, n) /\ OpenAs(u) = {}) =>
            /\ \A c \in Conns : out'[1].to[c] = 0
            /\ UNCHANGED <<activeUsers, rooms>>]_vars

\* C14: a disconnected connection is in no registry set and in no room from
\* the disconnect step on, and nothing emitted in or after that step is
\* delivered to it.
C14_DisconnectedIsGone ==
    \A c \in Conns :
        status[c] = "closed" =>
            /\ \A u \in DOMAIN activeUsers : c \notin activeUsers[u]
            /\ \A r \in RoomNames : c \notin rooms[r]
            /\ \A i \in DOMAIN out : out[i].to[c] = 0

\* C14 witness: after a disconnect a message went to a room and reached an
\* open member, not the disconnected connection.
C14_Witness ==
    \E c, d \in Conns :
        /\ status[c] = "closed" /\ status[d] = "open"
        /\ Len(out) = 1
        /\ out[1].ev = "receive_message"
        /\ out[1].to[d] = 1 /\ out[1].to[c] = 0

\* C15: the disconnect of c changes no other connection's memberships or
\* status and no other user's registry entry; and once some connection has
\* disconnected, every member of R still receives each message sent to R.
C15_DisconnectFrame ==
    [][/\ lastOp' = "disconnect" =>
            \A c \in Conns :
                (status[c] = "open" /\ status'[c] = "closed") =>
                    /\ \A r \in RoomNames : rooms'[r] \ {c} = rooms[r] \ {c}
                    /\ \A x \in Conns \ {c} : status'[x] = status[x] /\ sockUser'[x] = sockUser[x]
                    /\ \A u \in Ids \ {sockUser[c]} :
                        /\ MapHas(activeUsers', u) <=> MapHas(activeUsers, u)
                        /\ MapHas(activeUsers, u) => activeUsers'[u] = activeUsers[u]
       /\ (lastOp' = "send_message" /\ \E k \in Conns : status[k] = "closed") =>
            \A c \in Conns, d \in MessageData :
                SendMessage(c, d) => \A x \in rooms[d.room] : out'[1].to[x] = 1]_vars

\* C15 witness: one user's connection has disconnected; another user's
\* connection is still registered, still in the chat room it joined, and has
\* just received a message sent there.
C15_Witness ==
    \E c, d \in Conns :
        /\ status[c] = "closed" /\ status[d] = "open"
        /\ sockUser[c] # sockUser[d]
        /\ activeUsers[sockUser[d]] = {d}
        /\ \E r \in ChatRooms : d \in rooms[r]
        /\ Len(out) = 1
        /\ out[1].ev = "receive_message"
        /\ out[1].payload.room \in ChatRooms
        /\ out[1].to[d] = 1

\* Each client was handed its packets in the order the server processed the
\* send_message events.
InProcessingOrder ==
    \A x \in Conns : \A i, j \in DOMAIN hist.inbox[x] :
        i < j => hist.inbox[x][i].n < hist.inbox[x][j].n

\* Two clients that both hold two messages of a room hold them in the same
\* relative order.
SameRelativeOrder ==
    \A x \in Conns : \A i, j \in DOMAIN hist.inbox[x] :
        (i < j /\ hist.inbox[x][i].room = hist.inbox[x][j].room) =>
            \A y \in Conns \ {x} : \A k, l \in DOMAIN hist.inbox[y] :
                (/\ hist.inbox[y][k] = hist.inbox[x][i]
                 /\ hist.inbox[y][l] = hist.inbox[x][j]) => k < l

C17_HandlerFailureIsContained ==
    [][lastOp' \in {"send_message", "typing", "stop_typing"} =>
       \A c \in Conns :
        (SendMessage(c, NoData) \/ Typing(c, NoData) \/ StopTyping(c, NoData)) =>
            /\ alive'
            /\ \A x \in Conns \ {c} : status'[x] = status[x]
            /\ \A r \in RoomNames : rooms'[r] \ {c} = rooms[r] \ {c}
            /\ \A u \in DOMAIN activeUsers :
                /\ MapHas(activeUsers', u)
                /\ activeUsers'[u] \ {c} = activeUsers[u] \ {c}]_vars

\* C18: every admitted connection, a user's first or not, broadcasts exactly
\* one user_status 'online' for its user to every connection open after the
\* step, the new one included, whatever rooms they are in.
C18_OnlineToEveryone ==
    [][lastOp' = "connection" =>
       \A c \in Conns :
        (status[c] = "new" /\ status'[c] = "open") =>
            /\ Len(out') = 1
            /\ out'[1].ev = "user_status"
            /\ out'[1].payload = [userId |-> sockUser'[c], status |-> "online"]
            /\ \A x \in Conns :
                out'[1].to[x] = IF status'[x] = "open" THEN 1 ELSE 0]_vars

\* C18 witness: a user's second connection was just admitted and its
\* 'online' reached both the new connection and the one already open, which
\* share no chat room.
C18_Witness ==
    \E c, d \in Conns :
        /\ c # d /\ status[c] = "open" /\ status[d] = "open"
        /\ sockUser[c] = sockUser[d]
        /\ lastOp = "connection"
        /\ StatusEmitted(sockUser[c], "online")
        /\ out[1].from = c
        /\ out[1].to[c] = 1 /\ out[1].to[d] = 1
        /\ \E r \in ChatRooms : d \in rooms[r] /\ c \notin rooms[r]

\* C19: join_room(R) from c adds c to R and leave_room(R) removes c from R;
\* no other membership, of c or of anyone else, changes, and neither does the
\* registry or any connection's status; a join of a room c is in, or a leave
\* of a room c is not in, changes no membership at all.
C19_JoinLeaveFrame ==
    [][lastOp' \in {"join_room", "leave_room"} =>
        LET changed == {q \in RoomNames : rooms'[q] # rooms[q]} IN
        /\ \A c \in Conns, r \in ClientRooms :
            /\ JoinRoom(c, r) =>
                /\ c \in rooms'[r]
                /\ changed \subseteq {r}
                /\ rooms'[r] \ {c} = rooms[r] \ {c}
                /\ c \in rooms[r] => changed = {}
            /\ LeaveRoom(c, r) =>
                /\ c \notin rooms'[r]
                /\ changed \subseteq {r}
                /\ rooms'[r] \ {c} = rooms[r] \ {c}
                /\ c \notin rooms[r] => changed = {}
        /\ UNCHANGED <<status, sockUser, activeUsers>>]_vars

\* C19 witness: a connection that just joined a room is now in four rooms at
\* once, while another connection is in the chat room.
C19_Witness ==
    \E c, d \in Conns :
        /\ c # d /\ status[c] = "open" /\ status[d] = "open"
        /\ lastOp = "join_room"
        /\ Cardinality({q \in RoomNames : c \in rooms[q]}) >= 4
        /\ \E r \in ChatRooms : d \in rooms[r]

\* C20 (as claimed): once a connected client has emitted 'identify' with user
\* id X, a notification emitted to room 'user:X' is delivered to it.
C20_IdentifyJoinsPrivateRoom ==
    [][lastOp' = "identify" =>
       \A c \in Conns, x \in IdentifyIds :
        Identify(c, x) => c \in NotifyUserTo(x)']_vars

\* C21: a send_message to R from a connection that is not a member of R is
\* handed to every member of R and not to the sender.
C21_NonMemberSend ==
    [][lastOp' = "send_message" =>
       \A c \in Conns, d \in MessageData :
        (SendMessage(c, d) /\ c \notin rooms[d.room]) =>
            /\ out'[1].ev = "receive_message"
            /\ out'[1].to[c] = 0
            /\ \A x \in rooms[d.room] : out'[1].to[x] = 1]_vars

\* C21 witness: a connection outside the chat room sent to it; a member got
\* the message and the sender did not.
C21_Witness ==
    /\ lastOp = "send_message"
    /\ Len(out) = 1
    /\ out[1].from \in Open
    /\ out[1].from \notin rooms[out[1].payload.room]
    /\ out[1].to[out[1].from] = 0
    /\ \E x \in rooms[out[1].payload.room] : out[1].to[x] = 1

\* C22 (as claimed): a typing or stop_typing event of c for room R hands one
\* user_typing / user_stop_typing, with the event's room and user, to every
\* member of R other than c.
C22_TypingReachesOtherMembers ==
    [][lastOp' \in {"typing", "stop_typing"} =>
       \A c \in Conns, d \in TypingData :
        (Typing(c, d) \/ StopTyping(c, d)) =>
            /\ out'[1].payload = [room |-> d.room, user |-> d.user]
            /\ \A x \in rooms[d.room] \ {c} : out'[1].to[x] = 1]_vars

\* C23: an open connection's id is in the registry set of the user it
\* authenticated as and in no other user's set, from the step that admits it
\* on; hence the sets of distinct users are disjoint.
C23_RegisteredOnceUnderOwnUser ==
    /\ \A c \in Conns :
        status[c] = "open" =>
            \A u \in Ids :
                (MapHas(activeUsers, u) /\ c \in activeUsers[u]) <=> u = sockUser[c]
    /\ \A u, v \in DOMAIN activeUsers :
        u # v => activeUsers[u] \cap activeUsers[v] = {}

\* C23 witness: connections of two users are open and registered, each under
\* its own user, and a join_room handler has just run.
C23_Witness ==
    /\ lastOp = "join_room"
    /\ \E c, d \in Conns :
        /\ status[c] = "open" /\ status[d] = "open"
        /\ sockUser[c] # sockUser[d]
        /\ activeUsers[sockUser[c]] = {c}
        /\ activeUsers[sockUser[d]] = {d}

\* The registry after the id of c is removed from the Set of user u directly,
\* as a server indexed by connection id would do.
IndexedRemove(m, u, c) ==
    IF ~MapHas(m, u) THEN m
    ELSE IF m[u] \ {c} = {} THEN MapDelete(m, u) ELSE MapSet(m, u, m[u] \ {c})

\* That server broadcasts 'offline' for u when the removal empties u's Set.
IndexedOffline(m, u, c) == MapHas(m, u) /\ m[u] \ {c} = {}

\* C25: the disconnect handler's scan leaves the registry that the direct
\* removal from the Set of the connection's own user leaves, and broadcasts
\* 'offline' for that user, and for no other, exactly when that removal
\* empties the Set.
C25_ScanEqualsIndex ==
    [][lastOp' = "disconnect" =>
       \A c \in Conns :
        (status[c] = "open" /\ status'[c] = "closed") =>
            /\ activeUsers' = IndexedRemove(activeUsers, sockUser[c], c)
            /\ StatusEmitted(sockUser[c], "offline")' <=>
                    IndexedOffline(activeUsers, sockUser[c], c)
            /\ \A v \in Ids \ {sockUser[c]} : ~StatusEmitted(v, "offline")']_vars

\* C25 witness: a disconnect has just removed a user's last connection while
\* another user's entry, which the scan may pass over, is in the registry.
C25_Witness ==
    /\ lastOp = "disconnect"
    /\ \E c, d \in Conns :
        /\ status[c] = "closed" /\ status[d] = "open"
        /\ sockUser[c] # sockUser[d]
        /\ ~MapHas(activeUsers, sockUser[c])
        /\ MapHas(activeUsers, sockUser[d])
        /\ StatusEmitted(sockUser[c], "offline")

\* The credential the claim says is verified: the auth field's token when the
\* field holds one, the header's second word otherwise.
ClaimedCredential(hs) == IF Falsy(hs.auth) THEN HeaderToken(hs.header) ELSE hs.auth

\* Handshakes whose auth-field token is invalid and whose header token is
\* valid.
BadAuthGoodHeader ==
    {hs \in Handshakes : /\ ~Falsy(hs.auth) /\ ~JwtVerify(hs.auth).ok
                         /\ JwtVerify(HeaderToken(hs.header)).ok}

\* C26: a connection attempt is admitted iff the auth-field token, or the
\* header token when the auth field holds none, is present and verifies, and
\* it is admitted as that token's id; an invalid auth-field token is rejected
\* even when the header token is valid.
C26_AuthFieldFirst ==
    [][lastOp' = "connection" =>
       /\ BadAuthGoodHeader # {}
       /\ \A hs \in Handshakes :
            Connection(hs) =>
                LET t == ClaimedCredential(hs)
                    admitted == \E c \in Conns : status[c] = "new" /\ status'[c] = "open"
                IN
                /\ admitted <=> (~Falsy(t) /\ JwtVerify(t).ok)
                /\ admitted =>
                    \E c \in Conns : /\ status[c] = "new" /\ status'[c] = "open"
                                     /\ sockUser'[c] = JwtVerify(t).id
                /\ hs \in BadAuthGoodHeader => RejectsWith(ErrInvalidToken)]_vars

\* C26 witness: one attempt was admitted as u2, whose token only the auth
\* field can carry, and a later one was rejected for an invalid token.
C26_Witness ==
    /\ lastOp = "connection"
    /\ \E c, d \in Conns :
        /\ c < d
        /\ status[c] = "open" /\ sockUser[c] = "u2"
        /\ status[d] = "rejected" /\ connErr[d] = ErrInvalidToken

\* C27: for every user with at least one user_status broadcast, the last one
\* says 'online' iff the user has a registry entry.
C27_LastStatusMatchesRegistry ==
    \A u \in Ids :
        statusCount[u].last # "none" =>
            (statusCount[u].last = "online" <=> MapHas(activeUsers, u))

\* C27 witness: a user connected twice and disconnected both connections, so
\* the last of its three broadcasts is 'offline' and its entry is gone.
C27_Witness ==
    \E u \in Users :
        /\ statusCount[u].online = 2
        /\ statusCount[u].offline = 1
        /\ statusCount[u].last = "offline"
        /\ ~MapHas(activeUsers, u)

\* The step hands nothing to any connection, the process keeps running, and
\* the registry, the rooms and every socket's status are as before.
DeliversNothing ==
    /\ \A i \in DOMAIN out' : \A x \in Conns : out'[i].to[x] = 0
    /\ alive'
    /\ UNCHANGED <<activeUsers, rooms, status>>

\* C24: a send_message, typing, stop_typing or notifyRoom whose target room
\* has no member delivers nothing, raises nothing, and leaves the registry
\* and the rooms, the target included, as they were.
C24_EmptyRoomIsNoOp ==
    [][lastOp' \in {"send_message", "typing", "stop_typing", "notifyRoom"} =>
        /\ \A c \in Conns, d \in MessageData :
            (SendMessage(c, d) /\ rooms[d.room] = {}) => DeliversNothing
        /\ \A c \in Conns, d \in TypingData :
            ((Typing(c, d) \/ StopTyping(c, d)) /\ rooms[d.room] = {}) => DeliversNothing
        /\ \A r \in ClientRooms, n \in Notifications :
            (NotifyRoom(r, n) /\ rooms[r] = {}) => DeliversNothing]_vars

\* C24 witness: notifyRoom has just targeted a room without members while a
\* connection was open, and nobody was handed the notification.
C24_Witness ==
    /\ lastOp = "notifyRoom"
    /\ Open # {}
    /\ Len(out) = 1
    /\ out[1].ev = "notification"
    /\ rooms[out[1].payload.room] = {}
    /\ \A x \in Conns : out[1].to[x] = 0

\* C28: the receive_message of a send_message carries the senderId and
\* senderName of the event's payload, whoever the connection authenticated as;
\* a connection of another user sending the same payload would produce the
\* same receive_message payload.
C28_SenderFieldsFromPayload ==
    [][lastOp' = "send_message" =>
       \A c \in Conns, d \in MessageData :
        SendMessage(c, d) =>
            /\ out'[1].payload.senderId = d.senderId
            /\ out'[1].payload.senderName = d.senderName
            /\ \A c2 \in Open :
                sockUser[c2] # sockUser[c] =>
                    ReceiveMessagePayload(c2, d) = out'[1].payload]_vars

\* C28 witness: a connection sent a message whose senderId is not the user it
\* authenticated as, while a connection of that other user was open.
C28_Witness ==
    /\ lastOp = "send_message"
    /\ Len(out) = 1
    /\ out[1].from \in Open
    /\ out[1].payload.senderId # sockUser[out[1].from]
    /\ \E c2 \in Open : sockUser[c2] = out[1].payload.senderId

\* C29 (as claimed): a send_message, typing, stop_typing, notifyUser or
\* notifyRoom step changes neither the registry nor the rooms; a step that
\* changes either is a connection, join_room, leave_room or disconnect.
C29_EmittersChangeNothing ==
    [][/\ lastOp' \in {"send_message", "typing", "stop_typing", "notifyUser", "notifyRoom"}
            => UNCHANGED <<activeUsers, rooms>>
       /\ <<activeUsers, rooms>>' # <<activeUsers, rooms>>
            => lastOp' \in {"connection", "join_room", "leave_room", "disconnect"}]_vars

\* C30: sendMessageAPI answers 400 and emits nothing when room or message is
\* missing; otherwise, when io is unset, it answers 500 and emits nothing;
\* otherwise it emits one receive_message, with the request user's id as
\* senderId, to the members of the room and answers 200.
C30_SendMessageAPI ==
    [][lastOp' = "sendMessageAPI" =>
       \A u \in ReqUsers, b \in ApiBodies :
        SendMessageAPI(u, b) =>
            IF b.room = NoRoom \/ b.message = ""
            THEN /\ Len(out') = 1
                 /\ out'[1].ev = "http_response" /\ out'[1].payload.status = 400
            ELSE IF ~io
            THEN /\ Len(out') = 1
                 /\ out'[1].ev = "http_response" /\ out'[1].payload.status = 500
            ELSE /\ Len(out') = 2
                 /\ out'[1].ev = "receive_message"
                 /\ out'[1].payload.room = b.room
                 /\ out'[1].payload.message = b.message
                 /\ out'[1].payload.senderId = u.id
                 /\ \A x \in Conns :
                        out'[1].to[x] = IF x \in rooms[b.room] THEN 1 ELSE 0
                 /\ out'[2].ev = "http_response" /\ out'[2].payload.status = 200]_vars

\* C30 witness: a REST call by u2 has just been answered 200 after its
\* message reached a member of the chat room.
C30_Witness ==
    /\ lastOp = "sendMessageAPI"
    /\ Len(out) = 2
    /\ out[1].payload.senderId = "u2"
    /\ out[1].payload.room \in ChatRooms
    /\ \E x \in Open : out[1].to[x] = 1
    /\ out[2].payload.status = 200

=============================================================================
